---- MODULE Spec2Model ----
(***************************************************************************)
(* Batch image compression: the composable useImageCompression             *)
(* (src/src/composables/useImageCompression.ts) driven by the handlers of  *)
(* the ImageCompress view (src/src/router/index.ts).                       *)
(*                                                                         *)
(* JavaScript runs the handlers on one thread.  A UI handler or a callback *)
(* runs to its next suspension point without interleaving, and the promise *)
(* continuations it triggers (microtasks) run before the next UI event, so *)
(* each action below is one handler or callback together with the          *)
(* continuations it resumes.                                               *)
(***************************************************************************)
EXTENDS Integers, Sequences, FiniteSets, TLC

(***************************************************************************)
(* Bounds of the model                                                     *)
(***************************************************************************)
\* longest list of selected files
MaxFiles == 2
\* number of downloadAll calls followed
MaxDownloads == 1

(***************************************************************************)
(* IEEE 754 binary64 arithmetic on positive values, as far as the resize   *)
(* computation Math.round((maxWidth / width) * height) needs it.  A value  *)
(* is [m |-> 53 bits, most significant first and leading bit 1, e |-> the  *)
(* exponent of the last bit]: the number m * 2^e.                          *)
(***************************************************************************)
MantBits == 53
LimbBits == 15

RECURSIVE Pow2(_)
Pow2(n) == IF n = 0 THEN 1 ELSE 2 * Pow2(n - 1)

\* 2^k mod d by repeated squaring
RECURSIVE Pow2Mod(_, _)
Pow2Mod(k, d) ==
    IF k = 0 THEN 1 % d
    ELSE IF k % 2 = 0 THEN LET s == Pow2Mod(k \div 2, d) IN (s * s) % d
    ELSE (2 * Pow2Mod(k - 1, d)) % d

\* n as a sequence of exactly len bits, most significant first
IntToBitsN(n, len) == [i \in 1..len |-> (n \div Pow2(len - i)) % 2]

RECURSIVE BitLength(_)
BitLength(n) == IF n = 0 THEN 0 ELSE 1 + BitLength(n \div 2)

IntToBits(n) == IntToBitsN(n, BitLength(n))

RECURSIVE BitsToInt(_)
BitsToInt(bs) ==
    IF bs = <<>> THEN 0 ELSE 2 * BitsToInt(SubSeq(bs, 1, Len(bs) - 1)) + bs[Len(bs)]

\* remainder of the binary long division r/d after k fraction bits
FracRem(r, d, k) == (r * Pow2Mod(k, d)) % d

\* the first n fraction bits of r/d, 0 <= r < d
FracBits(r, d, n) == [k \in 1..n |-> IF 2 * FracRem(r, d, k - 1) >= d THEN 1 ELSE 0]

\* number of zero fraction bits of r/d before its first 1 bit, 0 < r < d
RECURSIVE LeadingZeros(_, _)
LeadingZeros(r, d) == IF 2 * r >= d THEN 0 ELSE 1 + LeadingZeros(2 * r, d)

IncBits(bs) ==
    LET zs == {i \in 1..Len(bs) : bs[i] = 0}
    IN  IF zs = {} THEN [i \in 1..(Len(bs) + 1) |-> IF i = 1 THEN 1 ELSE 0]
        ELSE LET p == CHOOSE i \in zs : \A j \in zs : j <= i
             IN  [i \in 1..Len(bs) |-> IF i < p THEN bs[i] ELSE IF i = p THEN 1 ELSE 0]

\* round to nearest, ties to even; half is -1, 0 or 1 as the part dropped
\* is below, at or above one half of the last bit kept
RoundNearestEven(bs, e, half) ==
    LET up  == half = 1 \/ (half = 0 /\ bs[Len(bs)] = 1)
        inc == IncBits(bs)
    IN  IF ~up THEN [m |-> bs, e |-> e]
        ELSE IF Len(inc) > Len(bs) THEN [m |-> SubSeq(inc, 1, Len(bs)), e |-> e + 1]
        ELSE [m |-> inc, e |-> e]

Cmp(a, b) == IF a > b THEN 1 ELSE IF a = b THEN 0 ELSE -1

\* the binary64 quotient a / b of two positive integers
F64Div(a, b) ==
    LET ip == IntToBits(a \div b)
        z  == IF ip = <<>> THEN LeadingZeros(a % b, b) ELSE 0
        n  == z + MantBits - Len(ip)
        fb == FracBits(a % b, b, n)
        r  == FracRem(a % b, b, n)
    IN  RoundNearestEven(ip \o SubSeq(fb, z + 1, n), 0 - n, Cmp(2 * r, b))

\* bs * h + c, limb by limb from the least significant end
RECURSIVE MulBits(_, _, _)
MulBits(bs, h, c) ==
    IF bs = <<>> THEN IntToBits(c)
    ELSE LET k == IF Len(bs) < LimbBits THEN Len(bs) ELSE LimbBits
             v == BitsToInt(SubSeq(bs, Len(bs) - k + 1, Len(bs))) * h + c
         IN  MulBits(SubSeq(bs, 1, Len(bs) - k), h, v \div Pow2(k)) \o IntToBitsN(v % Pow2(k), k)

DroppedHalf(bs) ==
    IF bs = <<>> THEN -1
    ELSE IF bs[1] = 0 THEN -1
    ELSE IF \E i \in 2..Len(bs) : bs[i] = 1 THEN 1 ELSE 0

\* the binary64 product of f and the positive integer h
F64MulInt(f, h) ==
    LET p == MulBits(f.m, h, 0)
        d == Len(p) - MantBits
    IN  RoundNearestEven(SubSeq(p, 1, MantBits), f.e + d,
                         DroppedHalf(SubSeq(p, MantBits + 1, Len(p))))

\* Math.round: the nearest integer, a tie going up
MathRound(f) ==
    LET n == MantBits + f.e
    IN  IF n < 0 THEN 0
        ELSE IF n = 0 THEN 1
        ELSE BitsToInt(SubSeq(f.m, 1, n)) + (IF n < MantBits THEN f.m[n + 1] ELSE 0)

(***************************************************************************)
(* Files the user can pick.  A File is identified by its key; two Files    *)
(* are the same object only if they have the same key.  A name is the      *)
(* sequence of its pieces, "." being a piece of its own.                   *)
(***************************************************************************)
Images == {"fA", "fB", "fC", "fD", "fE"}
\* what the user of the view picks from
Pickable == {"fA", "fC", "fT"}

FileName(f) ==
    CASE f = "fA" -> <<"a", ".", "p">>
      [] f = "fB" -> <<"a", ".", "j">>
      [] f = "fC" -> <<"c", ".", "x", ".", "p">>
      [] f = "fD" -> <<"d">>
      [] f = "fE" -> <<"e", ".", "p">>
      [] OTHER    -> <<"t", ".", "t">>

\* the media type, "type/" and subtype
FileType(f) ==
    CASE f = "fA" -> <<"image/", "png">>
      [] f = "fB" -> <<"image/", "jpeg">>
      [] f = "fC" -> <<"image/", "png">>
      [] f = "fD" -> <<"image/", "webp">>
      [] f = "fE" -> <<"image/", "png">>
      [] OTHER    -> <<"text/", "plain">>

FileSize(f) ==
    CASE f = "fA" -> 3
      [] f = "fB" -> 2
      [] f = "fD" -> 5
      [] OTHER    -> 1

\* what the browser decodes the file's bytes to: OK is FALSE for bytes that
\* are not an image; data is the RGBA bytes of the pixels, one pixel for
\* each run of equal pixels
Decoded(f) ==
    CASE f = "fA" -> [OK |-> TRUE, width |-> 232, height |-> 145,
                      data |-> <<10, 20, 30, 255>>]
      [] f = "fB" -> [OK |-> TRUE, width |-> 5000, height |-> 3000,
                      data |-> <<10, 20, 30, 255, 0, 0, 0, 128>>]
      [] f = "fD" -> [OK |-> TRUE, width |-> 800, height |-> 600,
                      data |-> <<255, 255, 255, 255, 0, 0, 0, 255>>]
      [] f = "fE" -> [OK |-> TRUE, width |-> 4000, height |-> 10,
                      data |-> <<0, 0, 0, 255>>]
      [] OTHER    -> [OK |-> FALSE, width |-> 0, height |-> 0, data |-> <<>>]

\* byte length of the blob the encoder produces for the file's image
EncodedSize(f) == IF f = "fA" THEN 5 ELSE 1

Formats == {"webp", "jpeg", "png"}
\* values of the quality and maxWidth inputs
Qualities == {92, 50}
MaxWidths == {1920, 100}

NoFile == "none"
NoOptions == [quality |-> 0, maxWidth |-> 0, format |-> "none"]
\* a Number argument: the number num / den, or undefined
Quotient(a, b) == [defined |-> TRUE, num |-> a, den |-> b]
Undefined == [defined |-> FALSE, num |-> 0, den |-> 1]

NoCanvas == [width |-> 0, height |-> 0, filled |-> FALSE, drawn |-> FALSE,
             probe |-> "none", mimeType |-> "none", blobQuality |-> Undefined]

\* the text of compressionProgress: '' and the templates of the two writers
Text(t, k, n) == [text |-> t, k |-> k, n |-> n]
NoText == Text("", 0, 0)

VARIABLES
    \* the view (router/index.ts)
    selectedFiles, compressedResults, showSettings, showResults,
    quality, maxWidth, format,
    \* the composable's refs
    isCompressing, compressionProgress,
    \* the compressImages call in flight: where it is suspended, who awaits
    \* it, its arguments and its locals
    pc, caller, files, sameList, options, i, file, results, canvas,
    \* what the call has done so far: the list as it was passed, the number
    \* of performCompression calls, the progress text it wrote last
    filesAtCall, started, batchText,
    \* the compressImages call the last step settled: its outcome and what
    \* it returned
    lastBatch,
    \* downloadAll calls suspended in zip.generateAsync; the download
    \* operation the last step ran: what it was given and handed the browser
    zipping, lastDownload

viewVars == <<selectedFiles, compressedResults, showSettings, showResults,
              quality, maxWidth, format>>
callVars == <<pc, caller, files, sameList, options, i, file, results, canvas,
              filesAtCall, started, batchText>>
vars == <<selectedFiles, compressedResults, showSettings, showResults,
          quality, maxWidth, format, isCompressing, compressionProgress,
          pc, caller, files, sameList, options, i, file, results, canvas,
          filesAtCall, started, batchText, lastBatch, zipping, lastDownload>>

NoBatch == [outcome |-> "none", returned |-> <<>>, error |-> "none",
            input |-> <<>>, final |-> <<>>, done |-> 0, started |-> 0]
NoDownload == [op |-> "none", given |-> 0, threw |-> "none", done |-> FALSE,
               delivered |-> <<>>]

Init ==
    /\ selectedFiles = <<>>
    /\ compressedResults = <<>>
    /\ showSettings = FALSE
    /\ showResults = FALSE
    /\ quality = 92
    /\ maxWidth = 1920
    /\ format = "webp"
    /\ isCompressing = FALSE
    /\ compressionProgress = NoText
    /\ pc = "idle"
    /\ caller = "none"
    /\ files = <<>>
    /\ sameList = FALSE
    /\ options = NoOptions
    /\ i = 0
    /\ file = NoFile
    /\ results = <<>>
    /\ canvas = NoCanvas
    /\ filesAtCall = <<>>
    /\ started = 0
    /\ batchText = NoText
    /\ lastBatch = NoBatch
    /\ zipping = <<>>
    /\ lastDownload = NoDownload

(***************************************************************************)
(* hasTransparency and the pure parts of performCompression                *)
(***************************************************************************)
\* hasTransparency with the catch block answering true
hasTransparencyOnErrorTrue(img, ctx, readable) ==
    IF ~ctx THEN FALSE
    ELSE IF ~readable THEN TRUE
    ELSE \E k \in 1..Len(img.data) : k % 4 = 0 /\ img.data[k] < 255

\* ctx: the scratch canvas gave a 2D context; readable: getImageData did
\* not throw.  data[3], data[7], ... of the source are here data[4], data[8], ...
hasTransparency(img, ctx, readable) ==
    IF ~ctx THEN FALSE
    ELSE IF ~readable THEN FALSE
    ELSE \E k \in 1..Len(img.data) : k % 4 = 0 /\ img.data[k] < 255

\* the size of the drawing surface
TargetSize(img, maxW) ==
    IF img.width > maxW
    THEN [width  |-> maxW,
          height |-> MathRound(F64MulInt(F64Div(maxW, img.width), img.height))]
    ELSE [width |-> img.width, height |-> img.height]

\* whether the surface is filled '#FFFFFF' before the image is drawn
FillsWhite(fmt, img, ctx, readable) ==
    IF fmt = "png" THEN FALSE
    ELSE IF fmt = "jpeg" THEN TRUE
    ELSE IF fmt = "webp" THEN ~hasTransparency(img, ctx, readable)
    ELSE FALSE

\* how the webp branch's call of hasTransparency went
Probe(fmt, ctx, readable) ==
    IF fmt # "webp" THEN "none"
    ELSE IF ~ctx THEN "nocontext"
    ELSE IF ~readable THEN "unreadable"
    ELSE "read"

MimeType(fmt) ==
    CASE fmt = "webp" -> "image/webp"
      [] fmt = "jpeg" -> "image/jpeg"
      [] fmt = "png"  -> "image/png"
      [] OTHER        -> "image/jpeg"

\* the quality handed on whatever the format
BlobQualityAlways(fmt, q) == q

\* the third argument of canvas.toBlob
BlobQuality(fmt, q) == IF fmt = "png" THEN Undefined ELSE q

\* the arguments compressImages hands to performCompression
TranscodeArgs(opts) ==
    [quality  |-> Quotient(opts.quality, 100),
     maxWidth |-> opts.maxWidth,
     format   |-> opts.format]

\* the surface and the toBlob call of img.onload
Surface(img, args, ctx, readable) ==
    LET size == TargetSize(img, args.maxWidth)
    IN  [width       |-> size.width,
         height      |-> size.height,
         filled      |-> FillsWhite(args.format, img, ctx, readable),
         drawn       |-> TRUE,
         probe       |-> Probe(args.format, ctx, readable),
         mimeType    |-> MimeType(args.format),
         blobQuality |-> BlobQuality(args.format, args.quality)]

\* the element compressImages pushes
Result(f, blob) ==
    [originalFile   |-> f,
     compressedBlob |-> blob,
     originalSize   |-> FileSize(f),
     compressedSize |-> blob.size]

(***************************************************************************)
(* compressImages.  The call frame is idle between calls.                  *)
(***************************************************************************)
\* the step settles no compressImages call and downloads nothing
NoEvent ==
    /\ lastBatch' = NoBatch
    /\ lastDownload' = NoDownload

IdleFrame ==
    /\ pc' = "idle"
    /\ caller' = "none"
    /\ files' = <<>>
    /\ sameList' = FALSE
    /\ options' = NoOptions
    /\ i' = 0
    /\ file' = NoFile
    /\ results' = <<>>
    /\ canvas' = NoCanvas
    /\ filesAtCall' = <<>>
    /\ started' = 0
    /\ batchText' = NoText

\* `return results` and the finally block, then handleCompress after its
\* await when the view made the call.  passed is the list as it was when
\* the call was made, fs the same list object as it is now, n the number of
\* performCompression calls made.
Return(cl, rs, passed, fs, n) ==
    /\ isCompressing' = FALSE
    /\ compressionProgress' = NoText
    /\ IdleFrame
    /\ lastBatch' = [outcome |-> "resolved", returned |-> rs, error |-> "none",
                     input |-> passed, final |-> fs, done |-> Len(rs),
                     started |-> n]
    /\ IF cl = "view"
       THEN /\ compressedResults' = rs
            /\ showResults' = TRUE
       ELSE UNCHANGED <<compressedResults, showResults>>
    /\ lastDownload' = NoDownload
    /\ UNCHANGED <<selectedFiles, showSettings, quality, maxWidth, format,
                   zipping>>

\* Throw with the results so far handed to the caller
ThrowDeliversPartial(err) ==
    /\ isCompressing' = FALSE
    /\ compressionProgress' = NoText
    /\ IdleFrame
    /\ lastBatch' = [outcome |-> "rejected", returned |-> results, error |-> err,
                     input |-> filesAtCall, final |-> files,
                     done |-> Len(results), started |-> started]
    /\ lastDownload' = NoDownload
    /\ compressedResults' = results
    /\ showResults' = TRUE
    /\ UNCHANGED <<selectedFiles, showSettings, quality, maxWidth, format,
                   zipping>>

\* Throw without the finally block
ThrowNoCleanup(err) ==
    /\ IdleFrame
    /\ lastBatch' = [outcome |-> "rejected", returned |-> <<>>, error |-> err,
                     input |-> filesAtCall, final |-> files,
                     done |-> Len(results), started |-> started]
    /\ lastDownload' = NoDownload
    /\ UNCHANGED <<viewVars, isCompressing, compressionProgress, zipping>>

\* performCompression rejected: the await throws, the finally block runs and
\* the call rejects with err; handleCompress catches it (console.error, alert)
Throw(err) ==
    /\ isCompressing' = FALSE
    /\ compressionProgress' = NoText
    /\ IdleFrame
    /\ lastBatch' = [outcome |-> "rejected", returned |-> <<>>, error |-> err,
                     input |-> filesAtCall, final |-> files,
                     done |-> Len(results), started |-> started]
    /\ lastDownload' = NoDownload
    /\ UNCHANGED <<viewVars, zipping>>

\* the head of the for loop at index idx, and its body up to the await
Iterate(cl, fs, same, opts, idx, rs, passed, n) ==
    IF idx < Len(fs)
    THEN /\ pc' = "reading"
         /\ caller' = cl
         /\ files' = fs
         /\ sameList' = same
         /\ options' = opts
         /\ i' = idx
         /\ file' = fs[idx + 1]
         /\ results' = rs
         /\ canvas' = NoCanvas
         /\ filesAtCall' = passed
         /\ started' = n + 1
         /\ isCompressing' = TRUE
         /\ compressionProgress' = Text("compressing", idx + 1, Len(fs))
         /\ batchText' = Text("compressing", idx + 1, Len(fs))
         /\ NoEvent
         /\ UNCHANGED <<viewVars, zipping>>
    ELSE Return(cl, rs, passed, fs, n)

\* compressImages(fs, opts) up to its first await; same tells whether fs is
\* the array selectedFiles holds
compressImages(cl, fs, same, opts) ==
    Iterate(cl, fs, same, opts, 0, <<>>, fs, 0)

(***************************************************************************)
(* performCompression: the callbacks of the FileReader, the Image and      *)
(* canvas.toBlob                                                           *)
(***************************************************************************)
ReaderOnLoad ==
    /\ pc = "reading"
    /\ pc' = "decoding"
    /\ UNCHANGED <<viewVars, isCompressing, compressionProgress, caller, files,
                   sameList, options, i, file, results, canvas, filesAtCall,
                   started, batchText, zipping>>
    /\ NoEvent

ReaderOnError ==
    /\ pc = "reading"
    /\ Throw("read")

ImgOnError ==
    /\ pc = "decoding"
    /\ ~Decoded(file).OK
    /\ Throw("load")

\* ctx, probeCtx: getContext('2d') of the surface and of hasTransparency's
\* scratch canvas returned a context; readable: getImageData did not throw
ImgOnLoad ==
    /\ pc = "decoding"
    /\ Decoded(file).OK
    /\ \E ctx, probeCtx, readable \in BOOLEAN :
          IF ~ctx
          THEN Throw("context")
          ELSE /\ pc' = "encoding"
               /\ canvas' = Surface(Decoded(file), TranscodeArgs(options),
                                    probeCtx, readable)
               /\ NoEvent
               /\ UNCHANGED <<viewVars, isCompressing, compressionProgress,
                              caller, files, sameList, options, i, file,
                              results, filesAtCall, started, batchText,
                              zipping>>

\* a blob is its byte length; null is no blob
Null == [size |-> -1]

\* the encoder's result: null for a surface without pixels, or when the
\* encoder fails
Encode(f, cv, encoded) ==
    IF cv.width = 0 \/ cv.height = 0 \/ ~encoded
    THEN Null
    ELSE [size |-> EncodedSize(f)]

\* the toBlob callback, and compressImages after its await
ToBlobCallback ==
    /\ pc = "encoding"
    /\ \E encoded \in BOOLEAN :
          LET blob == Encode(file, canvas, encoded)
          IN  IF blob.size < 0
              THEN Throw("encode")
              ELSE Iterate(caller, files, sameList, options, i + 1,
                           Append(results, Result(file, blob)), filesAtCall,
                           started)

(***************************************************************************)
(* downloadSingle and downloadAll                                          *)
(***************************************************************************)
\* name.split('.')[0]
SplitFirst(name) ==
    LET dots == {k \in 1..Len(name) : name[k] = "."}
    IN  IF dots = {} THEN name
        ELSE SubSeq(name, 1, (CHOOSE k \in dots : \A j \in dots : k <= j) - 1)

Extension(fmt) == IF fmt = "jpeg" THEN "jpg" ELSE fmt

\* `${originalName}_compressed.${extension}`
DownloadName(result, fmt) ==
    SplitFirst(FileName(result.originalFile)) \o <<"_compressed.", Extension(fmt)>>

\* `compressed_images_${timestamp}.zip`
ZipFileName == <<"compressed_images_", "timestamp", ".zip">>

\* what the browser is handed: one named file, or an archive with its entries
Delivery(kind, name, entries) == [kind |-> kind, name |-> name, entries |-> entries]

Download(op, given, threw, done, delivered) ==
    [op |-> op, given |-> given, threw |-> threw, done |-> done,
     delivered |-> delivered]

\* zip.file(fileName, blob) for results[k], results[k + 1], ...: an entry of
\* the same name is replaced
RECURSIVE AddEntries(_, _, _, _)
AddEntries(zip, rs, fmt, k) ==
    IF k > Len(rs) THEN zip
    ELSE AddEntries((DownloadName(rs[k], fmt) :> rs[k].compressedBlob) @@ zip,
                    rs, fmt, k + 1)

downloadSingle(op, result, fmt) ==
    /\ lastDownload' = Download(op, 1, "none", TRUE,
           <<Delivery("file", DownloadName(result, fmt),
                      DownloadName(result, fmt) :> result.compressedBlob)>>)

\* downloadAll without the check for an empty list
downloadAllUnchecked(rs, fmt) ==
    IF Len(rs) = 1
    THEN /\ downloadSingle("downloadAll", rs[1], fmt)
         /\ UNCHANGED <<compressionProgress, zipping>>
    ELSE /\ Len(zipping) < MaxDownloads
         /\ compressionProgress' = Text("generating", 0, 0)
         /\ zipping' = Append(zipping, [zip   |-> AddEntries(<<>>, rs, fmt, 1),
                                        given |-> Len(rs)])
         /\ lastDownload' = Download("downloadAll", Len(rs), "none", FALSE, <<>>)

\* downloadAll(rs, fmt) up to its await, or to its end when it has none
downloadAll(rs, fmt) ==
    IF Len(rs) = 0
    THEN /\ lastDownload' = Download("downloadAll", 0, "empty", TRUE, <<>>)
         /\ UNCHANGED <<compressionProgress, zipping>>
    ELSE IF Len(rs) = 1
    THEN /\ downloadSingle("downloadAll", rs[1], fmt)
         /\ UNCHANGED <<compressionProgress, zipping>>
    ELSE /\ Len(zipping) < MaxDownloads
         /\ compressionProgress' = Text("generating", 0, 0)
         /\ zipping' = Append(zipping, [zip   |-> AddEntries(<<>>, rs, fmt, 1),
                                        given |-> Len(rs)])
         /\ lastDownload' = Download("downloadAll", Len(rs), "none", FALSE, <<>>)

\* generateAsync resolved for the k-th suspended call: saveAs, then finally
ZipGenerated(k) ==
    /\ k \in 1..Len(zipping)
    /\ lastDownload' = Download("downloadAll", zipping[k].given, "none", TRUE,
           <<Delivery("zip", ZipFileName, zipping[k].zip)>>)
    /\ compressionProgress' = NoText
    /\ zipping' = SubSeq(zipping, 1, k - 1) \o SubSeq(zipping, k + 1, Len(zipping))
    /\ lastBatch' = NoBatch
    /\ UNCHANGED <<viewVars, isCompressing, callVars>>

\* generateAsync rejected: finally, and the caller's catch
ZipFailed(k) ==
    /\ k \in 1..Len(zipping)
    /\ lastDownload' = Download("downloadAll", zipping[k].given, "generate", TRUE, <<>>)
    /\ compressionProgress' = NoText
    /\ zipping' = SubSeq(zipping, 1, k - 1) \o SubSeq(zipping, k + 1, Len(zipping))
    /\ lastBatch' = NoBatch
    /\ UNCHANGED <<viewVars, isCompressing, callVars>>

(***************************************************************************)
(* The view: computed values and handlers.  A handler's guard is what the  *)
(* template requires for its control to be shown and enabled.              *)
(***************************************************************************)
\* Array.prototype.reduce((sum, r) => sum + r[field], 0)
RECURSIVE Reduce(_, _, _)
Reduce(rs, field, sum) ==
    IF rs = <<>> THEN sum ELSE Reduce(Tail(rs), field, sum + Head(rs)[field])

\* ((1 - compressedSize / originalSize) * 100).toFixed(1), in tenths
Ratio(compressedSize, originalSize) ==
    (2000 * (originalSize - compressedSize) + originalSize) \div (2 * originalSize)

\* totalStats with saved the other way round
totalStatsSavedSwapped ==
    IF Len(compressedResults) = 0
    THEN [originalSize |-> 0, compressedSize |-> 0, ratio |-> 0, saved |-> 0]
    ELSE LET originalSize   == Reduce(compressedResults, "originalSize", 0)
             compressedSize == Reduce(compressedResults, "compressedSize", 0)
         IN  [originalSize   |-> originalSize,
              compressedSize |-> compressedSize,
              ratio          |-> Ratio(compressedSize, originalSize),
              saved          |-> compressedSize - originalSize]

totalStats ==
    IF Len(compressedResults) = 0
    THEN [originalSize |-> 0, compressedSize |-> 0, ratio |-> 0, saved |-> 0]
    ELSE LET originalSize   == Reduce(compressedResults, "originalSize", 0)
             compressedSize == Reduce(compressedResults, "compressedSize", 0)
         IN  [originalSize   |-> originalSize,
              compressedSize |-> compressedSize,
              ratio          |-> Ratio(compressedSize, originalSize),
              saved          |-> originalSize - compressedSize]

\* lists of files a file dialog or a drop hands over
Picks == {<<f>> : f \in Pickable} \cup {<<"fT", "fA">>, <<"fA", "fC">>}

StartsWith(t, prefix) == Len(t) >= Len(prefix) /\ SubSeq(t, 1, Len(prefix)) = prefix

IsImage(f) == StartsWith(FileType(f), <<"image/">>)

\* handleFileSelect, handleDrop
handleFiles(picked) ==
    LET imageFiles == SelectSeq(picked, IsImage)
    IN  /\ Len(selectedFiles) + Len(imageFiles) <= MaxFiles
        /\ IF Len(imageFiles) = 0
           THEN /\ NoEvent
                /\ UNCHANGED <<viewVars, isCompressing, compressionProgress,
                               callVars, zipping>>
           ELSE /\ selectedFiles' = selectedFiles \o imageFiles
                /\ showSettings' = TRUE
                /\ showResults' = FALSE
                /\ sameList' = FALSE
                /\ UNCHANGED <<compressedResults, quality, maxWidth, format,
                               isCompressing, compressionProgress, pc, caller,
                               files, options, i, file, results, canvas,
                               filesAtCall, started, batchText, zipping>>
                /\ NoEvent

\* list.splice(index, 1), index counted from 1
Splice(list, index) == SubSeq(list, 1, index - 1) \o SubSeq(list, index + 1, Len(list))

removeFile(index) ==
    /\ showSettings
    /\ index \in 1..Len(selectedFiles)
    /\ selectedFiles' = Splice(selectedFiles, index)
    /\ files' = IF sameList THEN Splice(files, index) ELSE files
    /\ UNCHANGED <<compressedResults, showSettings, showResults, quality,
                   maxWidth, format, isCompressing, compressionProgress, pc,
                   caller, sameList, options, i, file, results, canvas,
                   filesAtCall, started, batchText, zipping>>
    /\ NoEvent

handleCompress ==
    /\ showSettings
    /\ ~(isCompressing \/ Len(selectedFiles) = 0)
    /\ IF Len(selectedFiles) = 0
       THEN /\ NoEvent
            /\ UNCHANGED <<viewVars, isCompressing, compressionProgress,
                           callVars, zipping>>
       ELSE compressImages("view", selectedFiles, TRUE,
                           [quality |-> quality, maxWidth |-> maxWidth,
                            format |-> format])

handleDownloadAll ==
    /\ showResults
    /\ downloadAll(compressedResults, format)
    /\ lastBatch' = NoBatch
    /\ UNCHANGED <<viewVars, isCompressing, callVars>>

handleDownloadSingle(index) ==
    /\ showResults
    /\ index \in 1..Len(compressedResults)
    /\ downloadSingle("downloadSingle", compressedResults[index], format)
    /\ lastBatch' = NoBatch
    /\ UNCHANGED <<viewVars, isCompressing, compressionProgress, callVars,
                   zipping>>

reset ==
    /\ showResults
    /\ selectedFiles' = <<>>
    /\ compressedResults' = <<>>
    /\ showSettings' = FALSE
    /\ showResults' = FALSE
    /\ quality' = 92
    /\ maxWidth' = 1920
    /\ format' = "webp"
    /\ sameList' = FALSE
    /\ UNCHANGED <<isCompressing, compressionProgress, pc, caller, files,
                   options, i, file, results, canvas, filesAtCall, started,
                   batchText, zipping>>
    /\ NoEvent

\* the v-model inputs of the settings panel
SetQuality(q) ==
    /\ showSettings
    /\ quality' = q
    /\ UNCHANGED <<selectedFiles, compressedResults, showSettings, showResults,
                   maxWidth, format, isCompressing, compressionProgress,
                   callVars, zipping>>
    /\ NoEvent

SetMaxWidth(m) ==
    /\ showSettings
    /\ maxWidth' = m
    /\ UNCHANGED <<selectedFiles, compressedResults, showSettings, showResults,
                   quality, format, isCompressing, compressionProgress,
                   callVars, zipping>>
    /\ NoEvent

SetFormat(fmt) ==
    /\ showSettings
    /\ format' = fmt
    /\ UNCHANGED <<selectedFiles, compressedResults, showSettings, showResults,
                   quality, maxWidth, isCompressing, compressionProgress,
                   callVars, zipping>>
    /\ NoEvent

Next ==
    \/ \E picked \in Picks : handleFiles(picked)
    \/ \E index \in 1..MaxFiles : removeFile(index)
    \/ handleCompress
    \/ ReaderOnLoad
    \/ ReaderOnError
    \/ ImgOnError
    \/ ImgOnLoad
    \/ ToBlobCallback
    \/ handleDownloadAll
    \/ \E index \in 1..MaxFiles : handleDownloadSingle(index)
    \/ \E k \in 1..MaxDownloads : ZipGenerated(k)
    \/ \E k \in 1..MaxDownloads : ZipFailed(k)
    \/ reset

Spec == Init /\ [][Next]_vars

(***************************************************************************)
(* The settings panel: the user has picked files, moves the three inputs   *)
(* and compresses, one batch after the other.                              *)
(***************************************************************************)
Selections == UNION {[1..n -> Images] : n \in 1..MaxFiles}

InitSettings ==
    \E picked \in Selections :
        /\ selectedFiles = picked
        /\ compressedResults = <<>>
        /\ showSettings = TRUE
        /\ showResults = FALSE
        /\ quality = 92
        /\ maxWidth = 1920
        /\ format = "webp"
        /\ isCompressing = FALSE
        /\ compressionProgress = NoText
        /\ pc = "idle"
        /\ caller = "none"
        /\ files = <<>>
        /\ sameList = FALSE
        /\ options = NoOptions
        /\ i = 0
        /\ file = NoFile
        /\ results = <<>>
        /\ canvas = NoCanvas
        /\ filesAtCall = <<>>
        /\ started = 0
        /\ batchText = NoText
        /\ lastBatch = NoBatch
        /\ zipping = <<>>
        /\ lastDownload = NoDownload

NextSettings ==
    \/ \E q \in Qualities : SetQuality(q)
    \/ \E m \in MaxWidths : SetMaxWidth(m)
    \/ \E fmt \in Formats : SetFormat(fmt)
    \/ handleCompress
    \/ ReaderOnLoad
    \/ ReaderOnError
    \/ ImgOnError
    \/ ImgOnLoad
    \/ ToBlobCallback

SpecSettings == InitSettings /\ [][NextSettings]_vars

(***************************************************************************)
(* The composable alone, with a caller other than the view: it calls       *)
(* compressImages (one call at a time) and downloadAll with lists of its   *)
(* own.                                                                    *)
(***************************************************************************)
\* the files a direct caller passes: one that decodes and one that does not
ApiImages == {"fA", "fC"}
ApiFileLists == {<<>>} \cup UNION {[1..n -> ApiImages] : n \in 1..MaxFiles}

Encoded(f) == Result(f, [size |-> EncodedSize(f)])

ApiResultLists ==
    {<<>>,
     <<Encoded("fB")>>,
     <<Encoded("fB"), Encoded("fA")>>,
     <<Encoded("fA"), Encoded("fD")>>}

ApiCompressImages ==
    /\ pc = "idle"
    /\ \E fs \in ApiFileLists, fmt \in Formats :
          compressImages("api", fs, FALSE,
                         [quality |-> 92, maxWidth |-> 1920, format |-> fmt])

ApiDownloadAll ==
    /\ \E rs \in ApiResultLists, fmt \in Formats : downloadAll(rs, fmt)
    /\ lastBatch' = NoBatch
    /\ UNCHANGED <<viewVars, isCompressing, callVars>>

NextApi ==
    \/ ApiCompressImages
    \/ ApiDownloadAll
    \/ ReaderOnLoad
    \/ ReaderOnError
    \/ ImgOnError
    \/ ImgOnLoad
    \/ ToBlobCallback
    \/ \E k \in 1..MaxDownloads : ZipGenerated(k)
    \/ \E k \in 1..MaxDownloads : ZipFailed(k)

SpecApi == Init /\ [][NextApi]_vars

(***************************************************************************)
(* Properties                                                              *)
(***************************************************************************)
\* the result list rs is one-to-one with the file list fs
OneToOne(rs, fs) ==
    /\ Len(rs) = Len(fs)
    /\ \A k \in 1..Len(rs) :
          /\ rs[k].originalFile = fs[k]
          /\ rs[k].originalSize = FileSize(fs[k])

\* C1: whenever compressImages resolves, the returned list has the length of
\* the input list and results[k] is made from files[k], also when removeFile
\* or handleFiles ran while the call was suspended.  The input list is read
\* either way: as the list that was passed, or as that array when the call
\* resolves.
C1_ResultsOneToOne ==
    lastBatch.outcome = "resolved" =>
        \/ OneToOne(lastBatch.returned, lastBatch.input)
        \/ OneToOne(lastBatch.returned, lastBatch.final)

\* the error performCompression rejects with when the callback due in the
\* current state fails
ErrorDue ==
    IF pc = "reading" THEN "read"
    ELSE IF pc = "decoding" THEN (IF Decoded(file).OK THEN "context" ELSE "load")
    ELSE "encode"

\* C2: when performCompression rejects for the item at index k, the call
\* rejects with that error and returns no list, k + 1 transcodes have been
\* started and none is started afterwards, and handleCompress leaves
\* compressedResults and showResults as they were.
C2_FailureAbortsBatch ==
    [][(pc # "idle" /\ lastBatch'.outcome = "rejected") =>
          /\ lastBatch'.error = ErrorDue
          /\ lastBatch'.returned = <<>>
          /\ lastBatch'.done = i
          /\ lastBatch'.started = i + 1
          /\ pc' = "idle"
          /\ started' = 0
          /\ compressedResults' = compressedResults
          /\ showResults' = showResults]_vars

\* a batch failed at its second item, after the first had been compressed
C2_Witness ==
    /\ lastBatch.outcome = "rejected"
    /\ lastBatch.done = 1
    /\ lastBatch.input = <<"fA", "fC">>
    /\ compressedResults = <<>>
    /\ ~showResults

\* C3: when no compressImages call and no downloadAll call is in flight,
\* isCompressing is false and compressionProgress is the empty string.
C3_ProgressReset ==
    (pc = "idle" /\ zipping = <<>>) =>
        (isCompressing = FALSE /\ compressionProgress = NoText)

\* a call failed and nothing else is in flight
C3_Witness ==
    /\ lastBatch.outcome = "rejected"
    /\ lastBatch.done = 1
    /\ pc = "idle"
    /\ zipping = <<>>

\* C4: a downloadAll call that ends without an error has delivered exactly
\* one file and no archive when it was given one result, and exactly one
\* archive with N distinct entries when it was given N > 1 results.
C4_OneEntryPerResult ==
    (lastDownload.op = "downloadAll" /\ lastDownload.done
        /\ lastDownload.threw = "none") =>
        /\ Len(lastDownload.delivered) = 1
        /\ IF lastDownload.given = 1
           THEN lastDownload.delivered[1].kind = "file"
           ELSE /\ lastDownload.delivered[1].kind = "zip"
                /\ Cardinality(DOMAIN lastDownload.delivered[1].entries)
                       = lastDownload.given

\* C5: downloadAll called with an empty list throws, hands the browser
\* nothing and suspends nothing, and leaves compressionProgress and
\* isCompressing as they were.
C5_EmptyDownloadFails ==
    [][(lastDownload'.op = "downloadAll" /\ lastDownload'.given = 0) =>
          /\ lastDownload'.threw = "empty"
          /\ lastDownload'.done
          /\ lastDownload'.delivered = <<>>
          /\ zipping' = zipping
          /\ compressionProgress' = compressionProgress
          /\ isCompressing' = isCompressing]_vars

\* downloadAll threw for an empty list while a batch showed its progress
C5_Witness ==
    /\ lastDownload.op = "downloadAll"
    /\ lastDownload.given = 0
    /\ lastDownload.threw = "empty"
    /\ isCompressing
    /\ compressionProgress = Text("compressing", 2, 2)

\* the nearest integer to a / b for positive a and b, a tie going up
RoundedQuotient(a, b) == (2 * a + b) \div (2 * b)

\* C6: the surface is never wider than the source; a source wider than
\* maxWidth m gets the surface (m, round(h * m / w)), any other source the
\* surface (w, h).
C6_TargetSize ==
    pc = "encoding" =>
        LET w == Decoded(file).width
            h == Decoded(file).height
            m == options.maxWidth
        IN  /\ canvas.width <= w
            /\ IF w > m
               THEN /\ canvas.width = m
                    /\ canvas.height = RoundedQuotient(h * m, w)
               ELSE /\ canvas.width = w
                    /\ canvas.height = h

\* the source has a pixel whose alpha is below 255
SomePixelTransparent(img) ==
    \E p \in 1..(Len(img.data) \div 4) : img.data[4 * p] < 255

\* C7: the surface is filled white before the image is drawn exactly when
\* the format is jpeg, or the format is webp and hasTransparency answered
\* false: the source has no transparent pixel, or its pixels could not be
\* read, or there was no context.  For png it is never filled.
C7_FillPolicy ==
    pc = "encoding" =>
        /\ canvas.drawn
        /\ canvas.filled <=>
              \/ options.format = "jpeg"
              \/ /\ options.format = "webp"
                 /\ \/ canvas.probe \in {"nocontext", "unreadable"}
                    \/ ~SomePixelTransparent(Decoded(file))
        /\ options.format = "png" => ~canvas.filled

\* a webp surface was filled for a source with a transparent pixel whose
\* pixels could not be read
C7_Witness ==
    /\ pc = "encoding"
    /\ options.format = "webp"
    /\ canvas.probe = "unreadable"
    /\ SomePixelTransparent(Decoded(file))
    /\ canvas.filled

\* C8: for png the encoder gets no quality argument whatever options.quality
\* is; for jpeg and webp it gets options.quality / 100.
C8_PngQualityOmitted ==
    pc = "encoding" =>
        /\ canvas.mimeType = MimeType(options.format)
        /\ IF options.format = "png"
           THEN canvas.blobQuality = Undefined
           ELSE canvas.blobQuality = Quotient(options.quality, 100)

\* a png is being encoded in a batch whose quality is not the default
C8_Witness ==
    /\ pc = "encoding"
    /\ options.format = "png"
    /\ options.quality = 50
    /\ canvas.blobQuality = Undefined

\* the sum of field over the elements of rs, by index
RECURSIVE SumTo(_, _, _)
SumTo(rs, field, n) == IF n = 0 THEN 0 ELSE SumTo(rs, field, n - 1) + rs[n][field]

\* C9: totalStats.originalSize and totalStats.compressedSize are the sums
\* over the results, saved is their difference, and all four fields are 0
\* for the empty list.
C9_TotalStats ==
    LET n == Len(compressedResults)
    IN  /\ totalStats.originalSize = SumTo(compressedResults, "originalSize", n)
        /\ totalStats.compressedSize = SumTo(compressedResults, "compressedSize", n)
        /\ totalStats.saved = SumTo(compressedResults, "originalSize", n)
                                  - SumTo(compressedResults, "compressedSize", n)
        /\ n = 0 => totalStats = [originalSize |-> 0, compressedSize |-> 0,
                                  ratio |-> 0, saved |-> 0]

\* two results whose compressed sizes add up to more than the originals
C9_Witness ==
    /\ Len(compressedResults) = 2
    /\ totalStats.saved < 0
    /\ compressedResults[1].originalFile # compressedResults[2].originalFile

\* the number of compressImages and downloadAll calls in flight
InFlight == (IF pc = "idle" THEN 0 ELSE 1) + Len(zipping)

\* C10: at most one of compressImages and downloadAll is in flight, and
\* while isCompressing is true compressionProgress shows the text the batch
\* wrote for its current item.
C10_SingleWriter ==
    /\ InFlight <= 1
    /\ isCompressing => compressionProgress = batchText

\* a step of a compressImages call that starts a transcode starts the one
\* at the next index, when every transcode started before has resolved, and
\* moves the counter shown by exactly one; no other step of the call moves
\* the counter
StartsInOrder ==
    /\ started' > started =>
          /\ started' = started + 1
          /\ pc \in {"idle", "encoding"}
          /\ pc' = "reading"
          /\ Len(results') = started
          /\ i' = started
          /\ file' = files'[i' + 1]
          /\ batchText'.k = batchText.k + 1
          /\ compressionProgress' = batchText'
    /\ (started' = started /\ pc' # "idle") => batchText' = batchText

\* when the call resolves, the counter it showed last is the total it showed
EndsAtTotal ==
    lastBatch'.outcome = "resolved" => batchText.k = batchText.n

\* C11: within one compressImages call the transcode at index i + 1 starts
\* only after the one at index i has resolved, one at a time and in the
\* order of the list, and the counter shown goes 1, 2, ..., total: it moves
\* by exactly one per item and the call resolves after showing total/total.
C11_SequentialProgress == [][StartsInOrder /\ EndsAtTotal]_vars

\* C12: for a decoded source of width and height at least 1 and a maxWidth
\* of at least 1, the surface handed to the encoder has width and height at
\* least 1.
C12_SurfaceNotEmpty ==
    (/\ pc = "encoding"
     /\ Decoded(file).width >= 1
     /\ Decoded(file).height >= 1
     /\ options.maxWidth >= 1) =>
        (canvas.width >= 1 /\ canvas.height >= 1)

====
